---- MODULE Spec2Model ----
(***************************************************************************)
(* Request-lifecycle and cache engine of laravel-connector-react:         *)
(* the time-bound query cache (lib/cache) and the useQuery hook            *)
(* (hooks/use-query.ts) with its retry, abort and invalidation rules.      *)
(*                                                                         *)
(* A useQuery consumer is a record of the hook's state cells and refs.     *)
(* One action models one synchronous stretch of JavaScript: a handler up   *)
(* to its first await, or the continuation after an await.                 *)
(***************************************************************************)
EXTENDS Integers, FiniteSets, Sequences, TLC

(* ---------------------------- bounds ----------------------------------- *)
\* Largest value of Date.now() explored.
MaxTime == 3
\* Transport calls (AbortControllers) one consumer may create.
MaxCalls == 3
\* Largest `retry` option explored.
MaxRetry == 2

(* ---------------------------- values ----------------------------------- *)
Undefined == "undefined"
Null == "null"
\* Transport payloads: two truthy ones and a present-but-falsy one (0, "", false).
Payloads == {"p1", "p2", "zero"}
\* JavaScript truthiness of the values of the model.
IsTruthy(v) == v \notin {Undefined, Null, "zero"}
\* Transport responses {success, data?, errors?}: every combination the
\* branches of fetchData tell apart.
Response(success, data, errors) == [success |-> success, data |-> data, errors |-> errors]
Responses ==
  {Response(TRUE, "p1", Undefined), Response(TRUE, "p2", Undefined),
   Response(TRUE, "zero", Undefined), Response(TRUE, Undefined, Undefined),
   Response(TRUE, Undefined, "e1"), Response(TRUE, "p1", "e1"),
   Response(FALSE, Undefined, "e1")}
\* No response (yet).
NoResponse == Response(FALSE, Undefined, Undefined)
\* Reasons a transport call rejects with.
Rejections == {"NetworkError"}
Keys == {"/users", "/posts"}
StaleTimes == {0, 2}
Consumers == {1, 2}

VARIABLES
  now,      \* Date.now()
  cache,    \* the provider's QueryCache: a Map from key to CacheEntry
  opts,     \* opts[c]: endpoint and QueryOptions of consumer c
  q,        \* q[c]: state cells and refs of consumer c's useQuery
  cb,       \* the callbacks invoked by the last step, in order
  ev,       \* the last step: operation, consumer, attempt, argument, response
  lastGet,  \* the last direct getCachedData call: key, time, entry seen, value returned
  kb,       \* the last two createCacheKey calls: parameter objects and keys returned
  mu        \* state cells, refs and pending mutate calls of the useMutation consumer

vars == <<now, cache, opts, q, cb, ev, lastGet, kb, mu>>

(* ---------------------------- lib/cache -------------------------------- *)
createQueryCache == <<>>

Has(ch, key) == key \in DOMAIN ch

MapDelete(ch, key) == [k \in DOMAIN ch \ {key} |-> ch[k]]

MapSet(ch, key, entry) == [k \in DOMAIN ch \cup {key} |-> IF k = key THEN entry ELSE ch[k]]

\* Mutant of isStale: an entry exactly staleTime old still counts as fresh.
isStale_Strict(entry, t) == t - entry.timestamp > entry.staleTime

\* isStale of getCachedData.
isStale(entry, t) == t - entry.timestamp >= entry.staleTime

\* getCachedData: the value read and the store after the read.
getCachedData(ch, key, t) ==
  IF ~Has(ch, key) THEN [value |-> Undefined, cache |-> ch]
  ELSE IF isStale(ch[key], t) THEN [value |-> Undefined, cache |-> MapDelete(ch, key)]
  ELSE [value |-> ch[key].data, cache |-> ch]

setCachedData(ch, key, data, staleTime, t) ==
  MapSet(ch, key, [data |-> data, timestamp |-> t, staleTime |-> staleTime])

\* Mutant of invalidateCacheEntry: a key the store does not hold empties it.
invalidateCacheEntry_ClearOnMiss(ch, key) ==
  IF Has(ch, key) THEN MapDelete(ch, key) ELSE <<>>

invalidateCacheEntry(ch, key) == MapDelete(ch, key)

\* Mutant of clearCache: the store is left as it is.
clearCache_Keep(ch) == ch

clearCache(ch) == <<>>

\* JavaScript values that parameter objects hold.  An object is the sequence
\* of its <<name, value>> properties in insertion order (the order Object.keys
\* and JSON.stringify enumerate); a value is a number or an object.
Num(n) == [t |-> "num", num |-> n, obj |-> <<>>]
Obj(props) == [t |-> "obj", num |-> 0, obj |-> props]

\* Position of a property name in the default (code unit) order of sort().
Rank(name) == CASE name = "a" -> 1 [] name = "b" -> 2 [] name = "x" -> 3 [] name = "y" -> 4

Remove(seq, i) == [j \in 1..(Len(seq) - 1) |-> IF j < i THEN seq[j] ELSE seq[j + 1]]

\* Object.keys(params).sort().reduce(...): the properties re-inserted in
\* sorted order of their names; the values are copied as they are.
RECURSIVE sortedParams(_)
sortedParams(props) ==
  IF props = <<>> THEN <<>>
  ELSE LET i == CHOOSE k \in DOMAIN props :
                  \A j \in DOMAIN props : Rank(props[k][1]) <= Rank(props[j][1])
       IN <<props[i]>> \o sortedParams(Remove(props, i))

\* JSON.stringify of a value: properties in insertion order.
RECURSIVE JSONstringify(_)
RECURSIVE JSONproperties(_)
JSONproperties(props) ==
  IF props = <<>> THEN ""
  ELSE "\"" \o props[1][1] \o "\":" \o JSONstringify(props[1][2])
       \o (IF Len(props) > 1 THEN "," ELSE "") \o JSONproperties(Tail(props))

JSONstringify(v) ==
  IF v.t = "num" THEN ToString(v.num) ELSE "{" \o JSONproperties(v.obj) \o "}"

\* No params argument, or an object without properties.
NoParams == <<>>

\* createCacheKey(endpoint, params)
createCacheKey(endpoint, params) ==
  IF params = NoParams THEN endpoint
  ELSE endpoint \o "?" \o JSONstringify(Obj(sortedParams(params)))

(* ---------------------------- useQuery --------------------------------- *)
\* The select option: absent, a projection of the payload, or a default for
\* an absent payload.
SelectFns == {"none", "proj", "orEmpty"}

Proj(v) == CASE v = "p1" -> "s1" [] v = "p2" -> "s2" [] OTHER -> v

\* A select with a default for an absent payload, such as d => d ?? [].
OrEmpty(v) == IF v \in {Undefined, Null} THEN "empty" ELSE v

Select(sel, v) == IF sel = "none" THEN v ELSE IF sel = "proj" THEN Proj(v) ELSE OrEmpty(v)

\* new Error(response.errors || 'Failed to fetch data')
NewError(errors) == IF IsTruthy(errors) THEN "Error: e1" ELSE "Error: Failed to fetch data"

QueryOptions ==
  [endpoint : {"/users"}, enabled : BOOLEAN, refetchOnMount : BOOLEAN,
   refetchOnWindowFocus : BOOLEAN, refetchInterval : BOOLEAN,
   staleTime : StaleTimes, retry : 0..MaxRetry, retryDelay : {1},
   select : SelectFns, initialData : {Undefined, "p1"}]

\* The hook after its first render: useState/useRef initial values.
\* phase: "rendered" (effects not yet run), "mounted", "unmounted".
\* abortControllerRef is the id of the current controller, 0 for null;
\* controllers is the number created; inflight the ids whose api.get is
\* pending; aborted the ids whose signal is aborted; timers the pending
\* retry setTimeouts (att: the attempt whose failure scheduled it, live:
\* whether that attempt was the current one then, due: when it may fire);
\* listening whether the focus listeners are attached.
useQueryInit(o) ==
  [phase |-> "rendered",
   data |-> o.initialData, error |-> Null,
   isLoading |-> TRUE, isFetching |-> FALSE, isError |-> FALSE, isSuccess |-> FALSE,
   mountedRef |-> TRUE, intervalRef |-> FALSE, retryCountRef |-> 0,
   abortControllerRef |-> 0, controllers |-> 0,
   inflight |-> {}, aborted |-> {}, timers |-> {}, listening |-> FALSE]

\* Mutant of reset: the error of the last failure is kept.
reset_KeepError(s) ==
  [s EXCEPT !.data = Undefined, !.isLoading = FALSE,
            !.isFetching = FALSE, !.isSuccess = FALSE,
            !.retryCountRef = 0]

\* reset
reset(s) ==
  [s EXCEPT !.data = Undefined, !.error = Null, !.isLoading = FALSE,
            !.isFetching = FALSE, !.isError = FALSE, !.isSuccess = FALSE,
            !.retryCountRef = 0]

\* The finally block of fetchData.
Finally(s) ==
  IF s.mountedRef THEN [s EXCEPT !.isFetching = FALSE, !.isLoading = FALSE] ELSE s

\* abortControllerRef.current.abort() when the ref is set.
AbortCurrent(s) ==
  IF s.abortControllerRef # 0
    THEN [s EXCEPT !.aborted = @ \cup {s.abortControllerRef}]
    ELSE s

\* Mutant of IssueGet: the predecessor's controller is replaced, not aborted.
IssueGet_NoAbort(s) ==
  LET id == s.controllers + 1
  IN [s EXCEPT !.abortControllerRef = id, !.controllers = id, !.inflight = @ \cup {id}]

\* Lines 103-111: abort the predecessor, create a controller, call api.get.
IssueGet(s) ==
  LET a == AbortCurrent(s)
      id == s.controllers + 1
  IN [a EXCEPT !.abortControllerRef = id, !.controllers = id, !.inflight = @ \cup {id}]

\* fetchData(isRetry) up to its await; closureData is the `data` captured by
\* the callback.  Result: the consumer, the cache, the callbacks invoked and
\* the promise of the call ("pending" at the await, "resolved" on return).
fetchData(s, o, ch, t, isRetry, closureData) ==
  IF ~o.enabled THEN [s |-> s, cache |-> ch, cb |-> <<>>, promise |-> "resolved"]
  ELSE
    LET s1 == IF isRetry THEN s
              ELSE [s EXCEPT !.isFetching = TRUE,
                             !.isLoading = IF ~IsTruthy(closureData) THEN TRUE ELSE @]
        rd == getCachedData(ch, createCacheKey(o.endpoint, NoParams), t)
        cached == rd.value
    IN IF o.staleTime > 0 /\ IsTruthy(cached) /\ ~isRetry
         THEN LET finalData == Select(o.select, cached)
              IN [s |-> Finally([s1 EXCEPT !.data = finalData, !.isSuccess = TRUE,
                                           !.isError = FALSE, !.error = Null,
                                           !.isFetching = FALSE, !.isLoading = FALSE]),
                  cache |-> rd.cache,
                  cb |-> <<[fn |-> "onSuccess", arg |-> finalData]>>,
                  promise |-> "resolved"]
         ELSE [s |-> IssueGet(s1), cache |-> rd.cache, cb |-> <<>>, promise |-> "pending"]

\* Mutant of RetryOrFail: onError is invoked for every failed attempt.
RetryOrFail_NotifyEach(s, o, t, id, err) ==
  IF s.retryCountRef < o.retry
    THEN LET n == s.retryCountRef + 1
         IN [s |-> [s EXCEPT !.retryCountRef = n,
                             !.timers = @ \cup {[att |-> id, live |-> id = s.abortControllerRef,
                                                    due |-> t + o.retryDelay * n]}],
             cb |-> <<[fn |-> "onError", arg |-> err]>>]
    ELSE [s |-> [s EXCEPT !.error = err, !.isError = TRUE, !.isSuccess = FALSE],
          cb |-> <<[fn |-> "onError", arg |-> err]>>]

\* Mutant of RetryOrFail: the budget comparison is off by one.
RetryOrFail_OneMore(s, o, t, id, err) ==
  IF s.retryCountRef <= o.retry
    THEN LET n == s.retryCountRef + 1
         IN [s |-> [s EXCEPT !.retryCountRef = n,
                             !.timers = @ \cup {[att |-> id, live |-> id = s.abortControllerRef,
                                                    due |-> t + o.retryDelay * n]}],
             cb |-> <<>>]
    ELSE [s |-> [s EXCEPT !.error = err, !.isError = TRUE, !.isSuccess = FALSE],
          cb |-> <<[fn |-> "onError", arg |-> err]>>]

\* Mutant of RetryOrFail: every retry waits retryDelay.
RetryOrFail_ConstantDelay(s, o, t, id, err) ==
  IF s.retryCountRef < o.retry
    THEN LET n == s.retryCountRef + 1
         IN [s |-> [s EXCEPT !.retryCountRef = n,
                             !.timers = @ \cup {[att |-> id, live |-> id = s.abortControllerRef,
                                                    due |-> t + o.retryDelay]}],
             cb |-> <<>>]
    ELSE [s |-> [s EXCEPT !.error = err, !.isError = TRUE, !.isSuccess = FALSE],
          cb |-> <<[fn |-> "onError", arg |-> err]>>]

\* The retry logic and the terminal failure of the catch block.
RetryOrFail(s, o, t, id, err) ==
  IF s.retryCountRef < o.retry
    THEN LET n == s.retryCountRef + 1
         IN [s |-> [s EXCEPT !.retryCountRef = n,
                             !.timers = @ \cup {[att |-> id, live |-> id = s.abortControllerRef,
                                                    due |-> t + o.retryDelay * n]}],
             cb |-> <<>>]
    ELSE [s |-> [s EXCEPT !.error = err, !.isError = TRUE, !.isSuccess = FALSE],
          cb |-> <<[fn |-> "onError", arg |-> err]>>]

\* The catch block of fetchData for the attempt id failing with err.
Catch(s, o, t, id, err) ==
  IF ~s.mountedRef THEN [s |-> s, cb |-> <<>>]
  ELSE IF s.abortControllerRef # 0 /\ s.abortControllerRef \in s.aborted
    THEN [s |-> s, cb |-> <<>>]
  ELSE RetryOrFail(s, o, t, id, err)

\* Mutant of ApplyResponse: a success without data counts as a failure.
ApplyResponse_EmptyIsFailure(s, o, ch, t, id, response) ==
  IF response.success /\ IsTruthy(response.data)
    THEN LET finalData == Select(o.select, response.data)
         IN [s |-> [s EXCEPT !.data = finalData, !.isSuccess = TRUE, !.isError = FALSE,
                             !.error = Null, !.retryCountRef = 0],
             cache |-> setCachedData(ch, createCacheKey(o.endpoint, NoParams), response.data, o.staleTime, t),
             cb |-> <<[fn |-> "onSuccess", arg |-> finalData]>>]
  ELSE LET c == Catch(s, o, t, id, NewError(response.errors))
       IN [s |-> c.s, cache |-> ch, cb |-> c.cb]

\* Mutant of ApplyResponse: a success with a payload leaves isError as it was.
ApplyResponse_KeepError(s, o, ch, t, id, response) ==
  IF response.success /\ IsTruthy(response.data)
    THEN LET finalData == Select(o.select, response.data)
         IN [s |-> [s EXCEPT !.data = finalData, !.isSuccess = TRUE,
                             !.error = Null, !.retryCountRef = 0],
             cache |-> setCachedData(ch, createCacheKey(o.endpoint, NoParams), response.data, o.staleTime, t),
             cb |-> <<[fn |-> "onSuccess", arg |-> finalData]>>]
  ELSE IF response.success /\ ~IsTruthy(response.errors)
    THEN LET finalData == Select(o.select, Undefined)
         IN [s |-> [s EXCEPT !.data = finalData, !.isSuccess = TRUE, !.isError = FALSE,
                             !.error = Null, !.retryCountRef = 0],
             cache |-> setCachedData(ch, createCacheKey(o.endpoint, NoParams), Undefined, o.staleTime, t),
             cb |-> <<[fn |-> "onSuccess", arg |-> finalData]>>]
  ELSE LET c == Catch(s, o, t, id, NewError(response.errors))
       IN [s |-> c.s, cache |-> ch, cb |-> c.cb]

\* Mutant of ApplyResponse: the cache is given the selected data.
ApplyResponse_CacheSelected(s, o, ch, t, id, response) ==
  IF response.success /\ IsTruthy(response.data)
    THEN LET finalData == Select(o.select, response.data)
         IN [s |-> [s EXCEPT !.data = finalData, !.isSuccess = TRUE, !.isError = FALSE,
                             !.error = Null, !.retryCountRef = 0],
             cache |-> setCachedData(ch, createCacheKey(o.endpoint, NoParams), finalData, o.staleTime, t),
             cb |-> <<[fn |-> "onSuccess", arg |-> finalData]>>]
  ELSE IF response.success /\ ~IsTruthy(response.errors)
    THEN LET finalData == Select(o.select, Undefined)
         IN [s |-> [s EXCEPT !.data = finalData, !.isSuccess = TRUE, !.isError = FALSE,
                             !.error = Null, !.retryCountRef = 0],
             cache |-> setCachedData(ch, createCacheKey(o.endpoint, NoParams), Undefined, o.staleTime, t),
             cb |-> <<[fn |-> "onSuccess", arg |-> finalData]>>]
  ELSE LET c == Catch(s, o, t, id, NewError(response.errors))
       IN [s |-> c.s, cache |-> ch, cb |-> c.cb]

\* The branches on the response of a transport call that is applied.
ApplyResponse(s, o, ch, t, id, response) ==
  IF response.success /\ IsTruthy(response.data)
    THEN LET finalData == Select(o.select, response.data)
         IN [s |-> [s EXCEPT !.data = finalData, !.isSuccess = TRUE, !.isError = FALSE,
                             !.error = Null, !.retryCountRef = 0],
             cache |-> setCachedData(ch, createCacheKey(o.endpoint, NoParams), response.data, o.staleTime, t),
             cb |-> <<[fn |-> "onSuccess", arg |-> finalData]>>]
  ELSE IF response.success /\ ~IsTruthy(response.errors)
    THEN LET finalData == Select(o.select, Undefined)
         IN [s |-> [s EXCEPT !.data = finalData, !.isSuccess = TRUE, !.isError = FALSE,
                             !.error = Null, !.retryCountRef = 0],
             cache |-> setCachedData(ch, createCacheKey(o.endpoint, NoParams), Undefined, o.staleTime, t),
             cb |-> <<[fn |-> "onSuccess", arg |-> finalData]>>]
  ELSE LET c == Catch(s, o, t, id, NewError(response.errors))
       IN [s |-> c.s, cache |-> ch, cb |-> c.cb]

\* Mutant of AfterGet: the signal.aborted check is missing.
AfterGet_IgnoreAbort(s, o, ch, t, id, response) ==
  LET r == IF ~s.mountedRef THEN [s |-> s, cache |-> ch, cb |-> <<>>]
           ELSE ApplyResponse(s, o, ch, t, id, response)
  IN [s |-> Finally(r.s), cache |-> r.cache, cb |-> r.cb, promise |-> "resolved"]

\* Mutant of AfterGet: the mountedRef check is missing.
AfterGet_IgnoreUnmount(s, o, ch, t, id, response) ==
  LET r == IF id \in s.aborted THEN [s |-> s, cache |-> ch, cb |-> <<>>]
           ELSE ApplyResponse(s, o, ch, t, id, response)
  IN [s |-> Finally(r.s), cache |-> r.cache, cb |-> r.cb, promise |-> "resolved"]

\* fetchData after `await api.get` resolved with response for attempt id:
\* the rest of the try block, then the finally block; every path returns, so
\* the promise of the call resolves.
AfterGet(s, o, ch, t, id, response) ==
  LET r == IF ~s.mountedRef THEN [s |-> s, cache |-> ch, cb |-> <<>>]
           ELSE IF id \in s.aborted THEN [s |-> s, cache |-> ch, cb |-> <<>>]
           ELSE ApplyResponse(s, o, ch, t, id, response)
  IN [s |-> Finally(r.s), cache |-> r.cache, cb |-> r.cb, promise |-> "resolved"]

\* fetchData after `await api.get` rejected with err for attempt id:
\* the catch block, then the finally block; the catch block does not throw,
\* so the promise of the call resolves.
AfterReject(s, o, ch, t, id, err) ==
  LET r == Catch(s, o, t, id, err)
  IN [s |-> Finally(r.s), cache |-> ch, cb |-> r.cb, promise |-> "resolved"]

(* ---------------------------- useMutation ------------------------------ *)
\* Methods a consumer may pass: a supported one and one outside
\* POST/PUT/PATCH/DELETE.
Methods == {"POST", "GET"}

\* The cases of the switch on method.toUpperCase().
Supported(method) == method \in {"POST", "PUT", "PATCH", "DELETE"}

Variables == {"v1", "v2"}

\* The variables call k is made with: overlapping calls carry different ones.
VariablesOf(k) == IF k = 1 THEN "v1" ELSE "v2"

MutationOptions == [method : Methods, retry : 0..MaxRetry, retryDelay : {1}]

DefaultMutationOptions == [method |-> "POST", retry |-> 0, retryDelay |-> 1]

\* new Error(response.errors || 'Mutation failed')
NewMutationError(errors) == IF IsTruthy(errors) THEN "Error: e1" ELSE "Error: Mutation failed"

UnsupportedMethod == "Error: Unsupported method"

\* A mutate call: where it stands ("none": not made, "inflight": its
\* transport call is pending, "waiting": in the retry wait, "resolved" or
\* "rejected": its promise has settled), the variables it was given, the
\* transport calls it has made, when its retry wait ends, and what its
\* promise settled with.
NoCall ==
  [pos |-> "none", variables |-> Undefined, attempts |-> 0, due |-> 0,
   response |-> NoResponse, error |-> Null]

\* The mutate calls of the consumer: a first one and one that may overlap it.
MutationIds == {1, 2}

\* The hook after its first render.
useMutationInit(o) ==
  [o |-> o, phase |-> "mounted",
   data |-> Undefined, isLoading |-> FALSE, isSuccess |-> FALSE, error |-> Null,
   isError |-> FALSE, mountedRef |-> TRUE, retryCountRef |-> 0,
   calls |-> [k \in MutationIds |-> NoCall]]

\* reset of useMutation
mutationReset(m) ==
  [m EXCEPT !.data = Undefined, !.error = Null, !.isLoading = FALSE,
            !.isError = FALSE, !.isSuccess = FALSE, !.retryCountRef = 0]

\* The finally blocks a settling call runs: the one of every executeMutation
\* frame on its stack, then the one of mutate.
executeFinally(m) ==
  IF m.mountedRef /\ m.retryCountRef = 0 THEN [m EXCEPT !.isLoading = FALSE] ELSE m

mutateFinally(m) == IF m.mountedRef THEN [m EXCEPT !.isLoading = FALSE] ELSE m

\* The promise of call k settles: resolved with a response or rejected with
\* an error.
Settle(m, k, pos, response, err) ==
  mutateFinally(executeFinally(
    [m EXCEPT !.calls[k].pos = pos, !.calls[k].response = response, !.calls[k].error = err]))

\* Mutation callback invocations as they are recorded.
Call(fn, data, err, variables) ==
  [fn |-> fn, data |-> data, error |-> err, variables |-> variables]

\* Mutant of mutationCatch: the budget comparison is off by one.
mutationCatch_OneMore(m, k, t, err) ==
  IF ~m.mountedRef
    THEN [m |-> Settle(m, k, "rejected", NoResponse, err), cb |-> <<>>]
  ELSE IF m.retryCountRef <= m.o.retry
    THEN LET n == m.retryCountRef + 1
         IN [m |-> [m EXCEPT !.retryCountRef = n, !.calls[k].pos = "waiting",
                             !.calls[k].due = t + m.o.retryDelay * n],
             cb |-> <<>>]
  ELSE LET v == m.calls[k].variables
       IN [m |-> Settle([m EXCEPT !.error = err, !.isError = TRUE, !.isSuccess = FALSE],
                        k, "rejected", NoResponse, err),
           cb |-> <<Call("onError", Undefined, err, v), Call("onSettled", Undefined, err, v)>>]

\* Mutant of mutationCatch: the terminal failure is swallowed, the promise
\* resolves.
mutationCatch_Swallow(m, k, t, err) ==
  IF ~m.mountedRef
    THEN [m |-> Settle(m, k, "rejected", NoResponse, err), cb |-> <<>>]
  ELSE IF m.retryCountRef < m.o.retry
    THEN LET n == m.retryCountRef + 1
         IN [m |-> [m EXCEPT !.retryCountRef = n, !.calls[k].pos = "waiting",
                             !.calls[k].due = t + m.o.retryDelay * n],
             cb |-> <<>>]
  ELSE LET v == m.calls[k].variables
       IN [m |-> Settle([m EXCEPT !.error = err, !.isError = TRUE, !.isSuccess = FALSE],
                        k, "resolved", NoResponse, Null),
           cb |-> <<Call("onError", Undefined, err, v), Call("onSettled", Undefined, err, v)>>]

\* The catch block of executeMutation for call k failing with err.
mutationCatch(m, k, t, err) ==
  IF ~m.mountedRef
    THEN [m |-> Settle(m, k, "rejected", NoResponse, err), cb |-> <<>>]
  ELSE IF m.retryCountRef < m.o.retry
    THEN LET n == m.retryCountRef + 1
         IN [m |-> [m EXCEPT !.retryCountRef = n, !.calls[k].pos = "waiting",
                             !.calls[k].due = t + m.o.retryDelay * n],
             cb |-> <<>>]
  ELSE LET v == m.calls[k].variables
       IN [m |-> Settle([m EXCEPT !.error = err, !.isError = TRUE, !.isSuccess = FALSE],
                        k, "rejected", NoResponse, err),
           cb |-> <<Call("onError", Undefined, err, v), Call("onSettled", Undefined, err, v)>>]

\* executeMutation up to its await: the switch on the method.
executeMutation(m, k, t) ==
  IF Supported(m.o.method)
    THEN [m |-> [m EXCEPT !.calls[k].pos = "inflight", !.calls[k].attempts = @ + 1],
          cb |-> <<>>]
    ELSE mutationCatch(m, k, t, UnsupportedMethod)

\* mutate(variables) up to its first await.
mutate(m, k, t, variables) ==
  executeMutation([m EXCEPT !.isLoading = TRUE, !.isError = FALSE, !.error = Null,
                            !.retryCountRef = 0, !.calls[k].variables = variables], k, t)

\* executeMutation after the transport call of call k resolved.
mutationAfter(m, k, t, response) ==
  LET v == m.calls[k].variables
  IN IF ~m.mountedRef
       THEN [m |-> Settle(m, k, "resolved", response, Null), cb |-> <<>>]
     ELSE IF response.success /\ IsTruthy(response.data)
       THEN [m |-> Settle([m EXCEPT !.data = response.data, !.isSuccess = TRUE,
                                    !.isError = FALSE, !.error = Null, !.retryCountRef = 0],
                          k, "resolved", response, Null),
             cb |-> <<Call("onSuccess", response.data, Null, v),
                      Call("onSettled", response.data, Null, v)>>]
     ELSE IF response.success /\ ~IsTruthy(response.errors)
       THEN [m |-> Settle([m EXCEPT !.isSuccess = TRUE, !.isError = FALSE, !.error = Null,
                                    !.retryCountRef = 0],
                          k, "resolved", response, Null),
             cb |-> <<Call("onSuccess", Undefined, Null, v),
                      Call("onSettled", Undefined, Null, v)>>]
     ELSE mutationCatch(m, k, t, NewMutationError(response.errors))

(* ---------------------------- actions ---------------------------------- *)
NoEvent ==
  [op |-> "none", c |-> 0, id |-> 0, arg |-> Undefined, response |-> NoResponse,
   promise |-> "none"]
NoGet == [key |-> Undefined, at |-> 0, found |-> FALSE, age |-> 0, staleTime |-> 0, value |-> Undefined]

\* What a cache read of key at time t will find: "absent", "stale" or "fresh".
CacheStatus(ch, key, t) ==
  IF ~Has(ch, key) THEN "absent" ELSE IF isStale(ch[key], t) THEN "stale" ELSE "fresh"

\* No createCacheKey call made yet.
NoKeys ==
  [endpoint |-> Undefined, paramsA |-> NoParams, paramsB |-> NoParams,
   keyA |-> Undefined, keyB |-> Undefined]

DefaultOptions ==
  [endpoint |-> "/users", enabled |-> TRUE, refetchOnMount |-> TRUE,
   refetchOnWindowFocus |-> FALSE, refetchInterval |-> FALSE,
   staleTime |-> 0, retry |-> 0, retryDelay |-> 1,
   select |-> "none", initialData |-> Undefined]

\* The consumers a specification lets act; the others keep their defaults.
InitWith(active, options) ==
  /\ now = 0
  /\ cache = createQueryCache
  /\ opts \in [Consumers -> QueryOptions]
  /\ \A c \in Consumers : IF c \in active THEN opts[c] \in options ELSE opts[c] = DefaultOptions
  /\ q = [c \in Consumers |-> useQueryInit(opts[c])]
  /\ cb = <<>>
  /\ ev = NoEvent
  /\ lastGet = NoGet
  /\ kb = NoKeys
  /\ mu = useMutationInit(DefaultMutationOptions)

\* A run may start only while the consumer can still create a controller.
CanRun(c) == q[c].controllers < MaxCalls

\* A step of consumer c; the event records how the promise of the fetchData
\* call that ran or continued in the step stands ("none": no such call).
Apply(c, r, e) ==
  /\ q' = [q EXCEPT ![c] = r.s]
  /\ cache' = r.cache
  /\ cb' = r.cb
  /\ ev' = [e EXCEPT !.promise = IF "promise" \in DOMAIN r THEN r.promise ELSE "none"]
  /\ UNCHANGED <<now, opts, lastGet, kb, mu>>

Event(op, c, id, arg) ==
  [op |-> op, c |-> c, id |-> id, arg |-> arg, response |-> NoResponse, promise |-> "none"]

KeyOf(c) == createCacheKey(opts[c].endpoint, NoParams)

\* Mutant of Mount: the initial fetch does not look at refetchOnMount.
Mount_Always(c) ==
  /\ q[c].phase = "rendered"
  /\ LET o == opts[c]
         s0 == [q[c] EXCEPT !.phase = "mounted",
                            !.intervalRef = o.refetchInterval /\ o.enabled,
                            !.listening = o.refetchOnWindowFocus /\ o.enabled]
         e == Event("mount", c, 0, CacheStatus(cache, KeyOf(c), now))
     IN Apply(c, fetchData(s0, o, cache, now, FALSE, s0.data), e)

\* The effects after the first render: initial fetch, interval, focus listeners.
Mount(c) ==
  /\ q[c].phase = "rendered"
  /\ LET o == opts[c]
         s0 == [q[c] EXCEPT !.phase = "mounted",
                            !.intervalRef = o.refetchInterval /\ o.enabled,
                            !.listening = o.refetchOnWindowFocus /\ o.enabled]
         e == Event("mount", c, 0, CacheStatus(cache, KeyOf(c), now))
     IN IF o.refetchOnMount
          THEN Apply(c, fetchData(s0, o, cache, now, FALSE, s0.data), e)
          ELSE Apply(c, [s |-> s0, cache |-> cache, cb |-> <<>>], e)

\* The cleanups of the effects.
Unmount(c) ==
  /\ q[c].phase = "mounted"
  /\ LET s0 == [q[c] EXCEPT !.phase = "unmounted", !.mountedRef = FALSE,
                            !.intervalRef = FALSE, !.listening = FALSE]
     IN Apply(c, [s |-> AbortCurrent(s0), cache |-> cache, cb |-> <<>>],
              Event("unmount", c, 0, Undefined))

\* Mutant of Refetch: the retry counter keeps its value.
Refetch_KeepCounter(c) ==
  /\ q[c].phase # "rendered"
  /\ CanRun(c)
  /\ Apply(c, fetchData(q[c], opts[c], cache, now, FALSE, q[c].data),
           Event("refetch", c, 0, CacheStatus(cache, KeyOf(c), now)))

\* refetch()
Refetch(c) ==
  /\ q[c].phase # "rendered"
  /\ CanRun(c)
  /\ Apply(c, fetchData([q[c] EXCEPT !.retryCountRef = 0], opts[c], cache, now, FALSE, q[c].data),
           Event("refetch", c, 0, CacheStatus(cache, KeyOf(c), now)))

\* Mutant of Invalidate: the cache entry is not deleted.
Invalidate_KeepEntry(c) ==
  /\ q[c].phase # "rendered"
  /\ CanRun(c)
  /\ Apply(c, fetchData([q[c] EXCEPT !.retryCountRef = 0, !.data = Undefined], opts[c],
                        cache, now, FALSE, q[c].data),
           Event("invalidate", c, 0, CacheStatus(cache, KeyOf(c), now)))

\* invalidate()
Invalidate(c) ==
  /\ q[c].phase # "rendered"
  /\ CanRun(c)
  /\ Apply(c, fetchData([q[c] EXCEPT !.retryCountRef = 0, !.data = Undefined], opts[c],
                        invalidateCacheEntry(cache, KeyOf(c)), now, FALSE, q[c].data),
           Event("invalidate", c, 0, CacheStatus(cache, KeyOf(c), now)))

\* reset()
Reset(c) ==
  /\ q[c].phase # "rendered"
  /\ Apply(c, [s |-> reset(q[c]), cache |-> cache, cb |-> <<>>], Event("reset", c, 0, Undefined))

\* A tick of the refetchInterval timer.
IntervalTick(c) ==
  /\ q[c].intervalRef
  /\ CanRun(c)
  /\ Apply(c, fetchData(q[c], opts[c], cache, now, FALSE, q[c].data),
           Event("interval", c, 0, CacheStatus(cache, KeyOf(c), now)))

\* A focus or visibilitychange event reaching handleFocus.
Focus(c, visible) ==
  /\ q[c].listening
  /\ CanRun(c)
  /\ LET e == Event("focus", c, 0, CacheStatus(cache, KeyOf(c), now))
     IN IF visible
          THEN Apply(c, fetchData(q[c], opts[c], cache, now, FALSE, q[c].data), e)
          ELSE Apply(c, [s |-> q[c], cache |-> cache, cb |-> <<>>], Event("focus", c, 0, "hidden"))

\* Mutant of RetryTimer: the callback does not look at mountedRef.
RetryTimer_IgnoreUnmount(c, tm) ==
  /\ tm \in q[c].timers
  /\ now >= tm.due
  /\ CanRun(c)
  /\ Apply(c, fetchData([q[c] EXCEPT !.timers = @ \ {tm}], opts[c], cache, now, TRUE, q[c].data),
           Event("retryTimer", c, tm.att, Undefined))

\* The setTimeout callback of the retry logic.
RetryTimer(c, tm) ==
  /\ tm \in q[c].timers
  /\ now >= tm.due
  /\ CanRun(c)
  /\ LET s0 == [q[c] EXCEPT !.timers = @ \ {tm}]
         e == Event("retryTimer", c, tm.att, Undefined)
     IN IF s0.mountedRef
          THEN Apply(c, fetchData(s0, opts[c], cache, now, TRUE, s0.data), e)
          ELSE Apply(c, [s |-> s0, cache |-> cache, cb |-> <<>>], e)

\* api.get of attempt id resolves.
Resolve(c, id, response) ==
  /\ id \in q[c].inflight
  /\ Apply(c, AfterGet([q[c] EXCEPT !.inflight = @ \ {id}], opts[c], cache, now, id, response),
           [Event("resolve", c, id, Undefined) EXCEPT !.response = response])

\* api.get of attempt id rejects.
Reject(c, id, err) ==
  /\ id \in q[c].inflight
  /\ Apply(c, AfterReject([q[c] EXCEPT !.inflight = @ \ {id}], opts[c], cache, now, id, err),
           Event("reject", c, id, err))

\* Something reads the clock later on: a cache entry (its age), a retry timer
\* or a retry wait (its due time).  Without any of them a tick only shifts the
\* origin of time.
TimeObserved ==
  \/ cache # <<>>
  \/ \E c \in Consumers : q[c].timers # {}
  \/ \E k \in MutationIds : mu.calls[k].pos = "waiting"

\* Time passes.
Tick ==
  /\ now < MaxTime
  /\ TimeObserved
  /\ now' = now + 1
  /\ cb' = <<>>
  /\ ev' = Event("tick", 0, 0, Undefined)
  /\ UNCHANGED <<cache, opts, q, lastGet, kb, mu>>

(* ---- the cache utilities called directly (they are exported) ---------- *)
CacheGet(key) ==
  /\ LET rd == getCachedData(cache, key, now)
     IN /\ cache' = rd.cache
        /\ lastGet' = [key |-> key, at |-> now, found |-> Has(cache, key),
                       age |-> IF Has(cache, key) THEN now - cache[key].timestamp ELSE 0,
                       staleTime |-> IF Has(cache, key) THEN cache[key].staleTime ELSE 0,
                       value |-> rd.value]
  /\ cb' = <<>>
  /\ ev' = Event("getCachedData", 0, 0, key)
  /\ UNCHANGED <<now, opts, q, kb, mu>>

CacheSet(key, data, staleTime) ==
  /\ cache' = setCachedData(cache, key, data, staleTime, now)
  /\ cb' = <<>>
  /\ ev' = Event("setCachedData", 0, 0, key)
  /\ UNCHANGED <<now, opts, q, lastGet, kb, mu>>

\* invalidateQuery of the provider.  The event's id is the number of entries
\* the store held under the key (0 or 1).
InvalidateQuery(key) ==
  /\ cache' = invalidateCacheEntry(cache, key)
  /\ cb' = <<>>
  /\ ev' = Event("invalidateQuery", 0, IF Has(cache, key) THEN 1 ELSE 0, key)
  /\ UNCHANGED <<now, opts, q, lastGet, kb, mu>>

\* invalidateAll of the provider.  The event's id is the number of entries
\* the store held.
InvalidateAll ==
  /\ cache' = clearCache(cache)
  /\ cb' = <<>>
  /\ ev' = Event("invalidateAll", 0, Cardinality(DOMAIN cache), Undefined)
  /\ UNCHANGED <<now, opts, q, lastGet, kb, mu>>

(* ---- createCacheKey called directly (it is exported) ------------------ *)
\* Two calls with the same endpoint and the two parameter objects at hand.
CreateCacheKeys(endpoint) ==
  /\ kb.endpoint = Undefined
  /\ kb' = [kb EXCEPT !.endpoint = endpoint,
                      !.keyA = createCacheKey(endpoint, kb.paramsA),
                      !.keyB = createCacheKey(endpoint, kb.paramsB)]
  /\ cb' = <<>>
  /\ ev' = Event("createCacheKey", 0, 0, endpoint)
  /\ UNCHANGED <<now, cache, opts, q, lastGet, mu>>

(* ---- useMutation ------------------------------------------------------ *)
ApplyMutation(r, e) ==
  /\ mu' = r.m
  /\ cb' = r.cb
  /\ ev' = e
  /\ UNCHANGED <<now, cache, opts, q, lastGet, kb>>

\* mutate(variables) / mutateAsync(variables): call k of the consumer.
Mutate(k, variables) ==
  /\ mu.calls[k].pos = "none"
  /\ \A j \in MutationIds : j < k => mu.calls[j].pos # "none"
  /\ ApplyMutation(mutate(mu, k, now, variables), Event("mutate", 0, k, variables))

\* The transport call of call k resolves.
MutationResolve(k, response) ==
  /\ mu.calls[k].pos = "inflight"
  /\ ApplyMutation(mutationAfter(mu, k, now, response),
                   [Event("mutationResolve", 0, k, Undefined) EXCEPT !.response = response])

\* The transport call of call k rejects.
MutationReject(k, err) ==
  /\ mu.calls[k].pos = "inflight"
  /\ ApplyMutation(mutationCatch(mu, k, now, err), Event("mutationReject", 0, k, err))

\* The retry wait of call k ends: executeMutation runs again.
MutationTimer(k) ==
  /\ mu.calls[k].pos = "waiting"
  /\ now >= mu.calls[k].due
  /\ ApplyMutation(executeMutation(mu, k, now), Event("mutationTimer", 0, k, Undefined))

\* reset() of useMutation
MutationReset ==
  ApplyMutation([m |-> mutationReset(mu), cb |-> <<>>], Event("mutationReset", 0, 0, Undefined))

\* The component unmounts.  The hook registers its cleanup with useCallback,
\* not useEffect, so React never runs it: mountedRef keeps its value.
MutationUnmount ==
  /\ mu.phase = "mounted"
  /\ ApplyMutation([m |-> [mu EXCEPT !.phase = "unmounted"], cb |-> <<>>],
                   Event("mutationUnmount", 0, 0, Undefined))

(* ---------------------------- specifications --------------------------- *)
Ids == 1..MaxCalls

\* Spec: one query consumer racing its own attempts.  Every trigger is
\* available (mount, refetch, invalidate, reset, interval, focus, retry
\* timer, unmount) and every transport call may settle at any time.
RaceOptions ==
  {o \in QueryOptions :
     /\ o.refetchOnMount /\ o.refetchInterval /\ o.refetchOnWindowFocus
     /\ o.retry \in {0, 1}
     /\ o.select = "none" /\ o.initialData = Undefined}

Init == InitWith({1}, RaceOptions)

Next ==
  \/ Mount(1)
  \/ Unmount(1)
  \/ Refetch(1)
  \/ Invalidate(1)
  \/ Reset(1)
  \/ IntervalTick(1)
  \/ \E visible \in BOOLEAN : Focus(1, visible)
  \/ \E tm \in q[1].timers : RetryTimer(1, tm)
  \/ \E id \in Ids, response \in Responses : Resolve(1, id, response)
  \/ \E id \in Ids, err \in Rejections : Reject(1, id, err)
  \/ Tick

Spec == Init /\ [][Next]_vars

\* SpecChain: one retry chain started by the mount and disturbed by no other
\* trigger; the consumer may unmount.
ChainOptions ==
  {o \in QueryOptions :
     /\ o.enabled /\ o.refetchOnMount /\ ~o.refetchInterval /\ ~o.refetchOnWindowFocus
     /\ o.select = "none"}

InitChain == InitWith({1}, ChainOptions)

NextChain ==
  \/ Mount(1)
  \/ Unmount(1)
  \/ \E tm \in q[1].timers : RetryTimer(1, tm)
  \/ \E id \in Ids, response \in Responses : Resolve(1, id, response)
  \/ \E id \in Ids, err \in Rejections : Reject(1, id, err)
  \/ Tick

SpecChain == InitChain /\ [][NextChain]_vars

\* SpecSelect: one consumer with any select option, without retries, run by
\* the mount and by refetch().
SelectOptions ==
  {o \in QueryOptions :
     /\ o.enabled /\ o.refetchOnMount /\ ~o.refetchInterval /\ ~o.refetchOnWindowFocus
     /\ o.retry = 0 /\ o.initialData = Undefined}

InitSelect == InitWith({1}, SelectOptions)

NextSelect ==
  \/ Mount(1)
  \/ Unmount(1)
  \/ Refetch(1)
  \/ \E id \in Ids, response \in Responses : Resolve(1, id, response)
  \/ \E id \in Ids, err \in Rejections : Reject(1, id, err)
  \/ Tick

SpecSelect == InitSelect /\ [][NextSelect]_vars

\* SpecCache: the cache utilities called directly on a store of two keys.
InitCache == InitWith({}, QueryOptions)

NextCache ==
  \/ \E key \in Keys : CacheGet(key)
  \/ \E key \in Keys, data \in {"p1", Undefined}, staleTime \in StaleTimes : CacheSet(key, data, staleTime)
  \/ \E key \in Keys : InvalidateQuery(key)
  \/ InvalidateAll
  \/ Tick

SpecCache == InitCache /\ [][NextCache]_vars

\* SpecKey: createCacheKey applied to two parameter objects of up to two
\* properties whose values are numbers or objects of up to two properties.
ParamNames == {"a", "b"}
NestedNames == {"x", "y"}

\* The objects with distinct property names from names and values from values.
ObjectsOver(names, values) ==
  {props \in UNION {[1..n -> names \X values] : n \in 0..Cardinality(names)} :
     \A i, j \in DOMAIN props : i # j => props[i][1] # props[j][1]}

ParamValues == {Num(1), Num(2)} \cup {Obj(props) : props \in ObjectsOver(NestedNames, {Num(1)})}

ParamObjects == ObjectsOver(ParamNames, ParamValues)

InitKey ==
  /\ now = 0
  /\ cache = createQueryCache
  /\ opts = [c \in Consumers |-> DefaultOptions]
  /\ q = [c \in Consumers |-> useQueryInit(opts[c])]
  /\ cb = <<>>
  /\ ev = NoEvent
  /\ lastGet = NoGet
  /\ mu = useMutationInit(DefaultMutationOptions)
  /\ kb \in [endpoint : {Undefined}, paramsA : ParamObjects, paramsB : ParamObjects,
             keyA : {Undefined}, keyB : {Undefined}]

NextKey == \E endpoint \in Keys : CreateCacheKeys(endpoint)

SpecKey == InitKey /\ [][NextKey]_vars

\* SpecMutation: one useMutation consumer making two mutate calls,
\* which may overlap; every transport call may settle at any time.
InitMutation ==
  /\ now = 0
  /\ cache = createQueryCache
  /\ opts = [c \in Consumers |-> DefaultOptions]
  /\ q = [c \in Consumers |-> useQueryInit(opts[c])]
  /\ cb = <<>>
  /\ ev = NoEvent
  /\ lastGet = NoGet
  /\ kb = NoKeys
  /\ mu \in {useMutationInit(o) : o \in MutationOptions}

NextMutation ==
  \/ \E k \in MutationIds : Mutate(k, VariablesOf(k))
  \/ \E k \in MutationIds, response \in Responses : MutationResolve(k, response)
  \/ \E k \in MutationIds, err \in Rejections : MutationReject(k, err)
  \/ \E k \in MutationIds : MutationTimer(k)
  \/ MutationReset
  \/ MutationUnmount
  \/ Tick

SpecMutation == InitMutation /\ [][NextMutation]_vars

\* SpecMutationChain: one mutate call and its retry chain, disturbed by no
\* other call of the consumer; the component may unmount.
NextMutationChain ==
  \/ Mutate(1, VariablesOf(1))
  \/ \E response \in Responses : MutationResolve(1, response)
  \/ \E err \in Rejections : MutationReject(1, err)
  \/ MutationTimer(1)
  \/ MutationUnmount
  \/ Tick

SpecMutationChain == InitMutation /\ [][NextMutationChain]_vars

\* SpecInvalidate: one consumer, run by the mount and by refetch(), under a
\* provider whose invalidateAll is called at any time.
InvalidateOptions ==
  {o \in QueryOptions :
     /\ o.enabled /\ o.refetchOnMount /\ ~o.refetchInterval /\ ~o.refetchOnWindowFocus
     /\ o.retry = 0 /\ o.select = "none" /\ o.initialData = Undefined}

InitInvalidate == InitWith({1}, InvalidateOptions)

NextInvalidate ==
  \/ Mount(1)
  \/ Unmount(1)
  \/ Refetch(1)
  \/ \E id \in Ids, response \in Responses : Resolve(1, id, response)
  \/ \E id \in Ids, err \in Rejections : Reject(1, id, err)
  \/ InvalidateAll
  \/ Tick

SpecInvalidate == InitInvalidate /\ [][NextInvalidate]_vars

\* SpecMount: one enabled consumer with or without refetchOnMount, with an
\* interval timer and focus listeners, without retries.
MountOptions ==
  {o \in QueryOptions :
     /\ o.enabled /\ o.refetchInterval /\ o.refetchOnWindowFocus
     /\ o.retry = 0 /\ o.select = "none" /\ o.initialData = Undefined}

InitMount == InitWith({1}, MountOptions)

NextMount ==
  \/ Mount(1)
  \/ Unmount(1)
  \/ Refetch(1)
  \/ Invalidate(1)
  \/ IntervalTick(1)
  \/ \E visible \in BOOLEAN : Focus(1, visible)
  \/ \E id \in Ids, response \in Responses : Resolve(1, id, response)
  \/ \E id \in Ids, err \in Rejections : Reject(1, id, err)
  \/ Tick

SpecMount == InitMount /\ [][NextMount]_vars

\* SpecBackoff: the retry chain of a query started by the mount and the retry
\* chain of one mutate call, each with a retryDelay of one or two time units.
RetryDelays == {1, 2}

BackoffOptions ==
  {[o EXCEPT !.retryDelay = d] :
     o \in {p \in ChainOptions : p.staleTime = 0 /\ p.initialData = Undefined},
     d \in RetryDelays}

BackoffMutationOptions ==
  {[o EXCEPT !.retryDelay = d] : o \in {p \in MutationOptions : Supported(p.method)},
                                  d \in RetryDelays}

InitBackoff ==
  /\ now = 0
  /\ cache = createQueryCache
  /\ \E o \in BackoffOptions : opts = [c \in Consumers |-> IF c = 1 THEN o ELSE DefaultOptions]
  /\ q = [c \in Consumers |-> useQueryInit(opts[c])]
  /\ cb = <<>>
  /\ ev = NoEvent
  /\ lastGet = NoGet
  /\ kb = NoKeys
  /\ \E o \in BackoffMutationOptions : mu = useMutationInit(o)

NextBackoff ==
  \/ Mount(1)
  \/ \E tm \in q[1].timers : RetryTimer(1, tm)
  \/ \E id \in Ids, response \in Responses : Resolve(1, id, response)
  \/ \E id \in Ids, err \in Rejections : Reject(1, id, err)
  \/ Mutate(1, VariablesOf(1))
  \/ \E response \in Responses : MutationResolve(1, response)
  \/ \E err \in Rejections : MutationReject(1, err)
  \/ MutationTimer(1)
  \/ Tick

SpecBackoff == InitBackoff /\ [][NextBackoff]_vars

\* SpecShared: two consumers of the same endpoint, hence of the same cache
\* key, each with a staleTime above zero and any select option.  Their mounts
\* fetch concurrently; refetch() is called while no call is outstanding.
SharedOptions ==
  {o \in QueryOptions :
     /\ o.enabled /\ o.refetchOnMount /\ ~o.refetchInterval /\ ~o.refetchOnWindowFocus
     /\ o.staleTime > 0 /\ o.retry = 0 /\ o.initialData = Undefined}

InitShared == InitWith({1, 2}, SharedOptions)

NextShared ==
  \/ \E c \in Consumers : Mount(c)
  \/ \E c \in Consumers : (\A d \in Consumers : q[d].inflight = {}) /\ Refetch(c)
  \/ \E c \in Consumers, id \in Ids, response \in Responses : Resolve(c, id, response)
  \/ Tick

SpecShared == InitShared /\ [][NextShared]_vars

\* SpecMutationOverlap: two mutate calls of one consumer, which may overlap,
\* with neither reset() nor unmount.
NextMutationOverlap ==
  \/ \E k \in MutationIds : Mutate(k, VariablesOf(k))
  \/ \E k \in MutationIds, response \in Responses : MutationResolve(k, response)
  \/ \E k \in MutationIds, err \in Rejections : MutationReject(k, err)
  \/ \E k \in MutationIds : MutationTimer(k)
  \/ Tick

SpecMutationOverlap == InitMutation /\ [][NextMutationOverlap]_vars

\* SpecSettle: one enabled consumer that stays mounted, with an interval
\* timer and focus listeners, at most one retry, and any refetchOnMount.  A
\* trigger is pulled only while the calls it may cause fit under MaxCalls, and
\* time passes only to let a pending retry timer become due, so every retry
\* that is set can run.  The effects run after the first render, the
\* transport settles every call, and a timer that is due fires; no trigger is
\* ever bound to occur.
SettleOptions ==
  {o \in QueryOptions :
     /\ o.enabled /\ o.refetchInterval /\ o.refetchOnWindowFocus
     /\ o.staleTime = 0 /\ o.retry \in {0, 1}
     /\ o.select = "none" /\ o.initialData = Undefined}

InitSettle == InitWith({1}, SettleOptions)

TriggerRoom(c) == q[c].controllers + 2 * opts[c].retry < MaxCalls

Trigger(c) ==
  /\ TriggerRoom(c)
  /\ \/ Refetch(c)
     \/ Invalidate(c)
     \/ IntervalTick(c)
     \/ \E visible \in BOOLEAN : Focus(c, visible)

TransportSettles(c) ==
  \/ \E id \in Ids, response \in Responses : Resolve(c, id, response)
  \/ \E id \in Ids, err \in Rejections : Reject(c, id, err)

FireTimer(c) == \E tm \in q[c].timers : RetryTimer(c, tm)

TimerWait(c) ==
  /\ q[c].timers # {}
  /\ \A tm \in q[c].timers : now < tm.due
  /\ Tick

NextSettle ==
  \/ Mount(1)
  \/ Trigger(1)
  \/ TransportSettles(1)
  \/ FireTimer(1)
  \/ TimerWait(1)

SpecSettle ==
  /\ InitSettle /\ [][NextSettle]_vars
  /\ WF_vars(Mount(1))
  /\ WF_vars(TransportSettles(1))
  /\ WF_vars(FireTimer(1))
  /\ WF_vars(TimerWait(1))

(* ---------------------------- properties ------------------------------- *)
\* The observable RequestState of a consumer.
RequestState(s) ==
  <<s.data, s.error, s.isLoading, s.isFetching, s.isError, s.isSuccess, s.retryCountRef>>

\* Attempt id of consumer c has been superseded by a newer attempt.
Superseded(c, id) == id < q[c].abortControllerRef

\* C1: out-of-order success never wins.  When the transport call of an attempt
\* that a newer attempt has superseded resolves, whatever the response, data
\* and the cache keep their values and no callback is invoked; and a
\* resolution that does change data belongs to the most recently started
\* attempt and sets data to (the selection of) its payload.
C1_OutOfOrderSuccessNeverWins ==
  [][(ev'.op = "resolve" /\ ev'.c = 1) =>
       /\ Superseded(1, ev'.id) =>
            /\ q'[1].data = q[1].data
            /\ cache' = cache
            /\ cb' = <<>>
       /\ q'[1].data # q[1].data =>
            /\ ev'.id = q[1].abortControllerRef
            /\ q'[1].data = Select(opts[1].select,
                                   IF IsTruthy(ev'.response.data) THEN ev'.response.data
                                                                  ELSE Undefined)]_vars

\* C1 witness: a superseded attempt has just resolved with a successful
\* payload while the consumer, still mounted, holds the other payload that
\* the newer attempt delivered.
C1_Witness ==
  /\ ev.op = "resolve" /\ ev.c = 1
  /\ Superseded(1, ev.id)
  /\ ev.response = Response(TRUE, "p1", Undefined)
  /\ q[1].mountedRef
  /\ q[1].data = "p2"
  /\ q[1].abortControllerRef \notin q[1].inflight

\* C2: cancellation is not an error.  When the transport call of an attempt
\* superseded by a newer attempt of the mounted consumer rejects, error,
\* isError, the retry counter and the retry timers keep their values and
\* onError is not invoked.
C2_CancellationIsNotAnError ==
  [][\A id \in Ids, err \in Rejections :
       (Reject(1, id, err) /\ Superseded(1, id)) =>
         /\ q'[1].error = q[1].error
         /\ q'[1].isError = q[1].isError
         /\ q'[1].retryCountRef = q[1].retryCountRef
         /\ q'[1].timers = q[1].timers
         /\ cb' = <<>>]_vars

\* C5: a new attempt cancels its predecessor before starting.  A step that
\* creates a controller leaves the signal of the previous one aborted, and
\* at most one pending transport call of the consumer has a signal that is
\* not aborted.
C5_AtMostOneLiveAttempt ==
  Cardinality(q[1].inflight \ q[1].aborted) <= 1

C5_PredecessorCancelledFirst ==
  /\ []C5_AtMostOneLiveAttempt
  /\ [][q'[1].controllers # q[1].controllers =>
          /\ q'[1].controllers = q[1].controllers + 1
          /\ q'[1].abortControllerRef = q'[1].controllers
          /\ q[1].abortControllerRef # 0 => q[1].abortControllerRef \in q'[1].aborted]_vars

\* C5 witness: two transport calls are pending, the older one with an
\* aborted signal, the newer one live.
C5_Witness ==
  /\ q[1].mountedRef
  /\ q[1].inflight = {1, 2}
  /\ q[1].aborted = {1}

\* C3: staleness gate.  Every run of the enabled consumer that is not a retry
\* continuation (mount, refetch(), interval tick, focus) and finds a fresh
\* entry for its key, whatever its payload, adopts the payload as data, ends
\* in Success, invokes onSuccess with it and issues no transport call.
C3_StalenessGate ==
  [][LET key == KeyOf(1)
         s == q'[1]
     IN ( /\ \/ Mount(1) /\ opts[1].refetchOnMount
             \/ Refetch(1)
             \/ IntervalTick(1)
             \/ Focus(1, TRUE)
          /\ opts[1].enabled
          /\ CacheStatus(cache, key, now) = "fresh" ) =>
          /\ s.data = Select(opts[1].select, cache[key].data)
          /\ s.isSuccess /\ ~s.isError /\ ~s.isFetching /\ ~s.isLoading
          /\ cb' = <<[fn |-> "onSuccess", arg |-> s.data]>>
          /\ s.controllers = q[1].controllers
          /\ s.inflight = q[1].inflight]_vars

C4_ChainCalls ==
  /\ q[1].controllers <= opts[1].retry + 1
  /\ q[1].isError => q[1].controllers = opts[1].retry + 1
  /\ q[1].isSuccess => q[1].inflight = {} /\ q[1].timers = {}

C6_DeactivationDiscardsCompletions ==
  [][/\ (ev'.op = "unmount" /\ ev'.c = 1) => q'[1].inflight \subseteq q'[1].aborted
     /\ ( /\ q[1].phase = "unmounted"
          /\ ev'.op \in {"resolve", "reject"} /\ ev'.c = 1 ) =>
          /\ q'[1].inflight = q[1].inflight \ {ev'.id}
          /\ RequestState(q'[1]) = RequestState(q[1])
          /\ q'[1].timers = q[1].timers
          /\ cache' = cache
          /\ cb' = <<>>]_vars

\* C6 witness: the current attempt of an unmounted consumer has just resolved
\* with a successful payload, and the consumer holds no data.
C6_Witness ==
  /\ q[1].phase = "unmounted"
  /\ ev.op = "resolve" /\ ev.c = 1
  /\ ev.id = q[1].abortControllerRef
  /\ ev.response = Response(TRUE, "p1", Undefined)
  /\ q[1].data = Undefined

\* C7: after deactivation no automatic trigger issues a transport call: the
\* interval is cleared and the focus listeners are removed, and a retry timer
\* that fires afterwards creates no controller and no pending call.
C7_Deactivated ==
  q[1].phase = "unmounted" => ~q[1].intervalRef /\ ~q[1].listening

C7_NoAutomaticCallAfterUnmount ==
  /\ []C7_Deactivated
  /\ [][( /\ q[1].phase = "unmounted"
          /\ \/ \E tm \in q[1].timers : RetryTimer(1, tm)
             \/ IntervalTick(1)
             \/ \E visible \in BOOLEAN : Focus(1, visible) ) =>
          /\ q'[1].controllers = q[1].controllers
          /\ q'[1].inflight = q[1].inflight]_vars

\* C7 witness: the retry timer of a failed attempt has fired after the
\* unmount, and the only transport call ever made is the failed one.
C7_Witness ==
  /\ q[1].phase = "unmounted"
  /\ ev.op = "retryTimer" /\ ev.c = 1
  /\ q[1].controllers = 1
  /\ q[1].retryCountRef = 1
  /\ q[1].timers = {}

\* C8: a cancellation during the retry wait aborts the chain.  When the
\* current attempt has failed and scheduled a retry, and its signal is aborted
\* (by unmount or by a newer attempt) before the timer fires, the timer issues
\* no transport call; with no call the chain can neither reach Error nor
\* invoke onError.
C8_CancelledChainStops ==
  [][\A tm \in q[1].timers :
       (RetryTimer(1, tm) /\ tm.live /\ tm.att \in q[1].aborted) =>
         /\ q'[1].controllers = q[1].controllers
         /\ q'[1].inflight = q[1].inflight]_vars

\* C9: invalidate() on an enabled consumer deletes the cache entry of its
\* key, sets the retry counter to 0 and issues exactly one transport call,
\* fresh entry or not.
C9_InvalidateForcesOneCall ==
  [][(Invalidate(1) /\ opts[1].enabled) =>
       /\ ~Has(cache', KeyOf(1))
       /\ q'[1].retryCountRef = 0
       /\ q'[1].controllers = q[1].controllers + 1
       /\ q'[1].inflight = q[1].inflight \cup {q'[1].controllers}]_vars

\* C9 witness: invalidate() has just run on a fresh entry; the entry is gone
\* and the second transport call of the consumer is pending.
C9_Witness ==
  /\ ev.op = "invalidate" /\ ev.c = 1 /\ ev.arg = "fresh"
  /\ ~Has(cache, KeyOf(1))
  /\ q[1].controllers = 2
  /\ q[1].inflight = {2}

\* C10: cache read.  getCachedData(key) at time now returns the stored value
\* and leaves the store alone when an entry exists with
\* now - timestamp < staleTime; otherwise (no entry, or
\* now - timestamp >= staleTime) it returns absent, and the entry is no
\* longer in the store, the other entries being untouched.
C10_CacheRead ==
  [][\A key \in Keys :
       CacheGet(key) =>
         IF Has(cache, key) /\ now - cache[key].timestamp < cache[key].staleTime
           THEN lastGet'.value = cache[key].data /\ cache' = cache
           ELSE /\ lastGet'.value = Undefined
                /\ ~Has(cache', key)
                /\ \A k \in Keys \ {key} :
                     /\ Has(cache', k) <=> Has(cache, k)
                     /\ Has(cache, k) => cache'[k] = cache[k]]_vars

\* C10 witness: a read at exactly timestamp + staleTime of an entry with a
\* positive staleTime has returned absent and removed the entry.
C10_Witness ==
  /\ ev.op = "getCachedData"
  /\ lastGet.found /\ lastGet.staleTime > 0 /\ lastGet.age = lastGet.staleTime
  /\ lastGet.value = Undefined
  /\ ~Has(cache, lastGet.key)

\* Two values are deeply equal up to the order of their properties, at any
\* nesting depth.
RECURSIVE DeepEqual(_, _)
DeepEqual(v, w) ==
  IF v.t = "num" \/ w.t = "num" THEN v.t = w.t /\ v.num = w.num
  ELSE /\ {p[1] : p \in {v.obj[i] : i \in DOMAIN v.obj}} = {p[1] : p \in {w.obj[i] : i \in DOMAIN w.obj}}
       /\ \A i \in DOMAIN v.obj, j \in DOMAIN w.obj :
            v.obj[i][1] = w.obj[j][1] => DeepEqual(v.obj[i][2], w.obj[j][2])

\* C11: cache-key determinism.  Whenever createCacheKey has been called with
\* one endpoint and two parameter objects that are deeply equal up to key
\* order at any nesting depth, the two keys it returned are the same string.
C11_KeyDeterminism ==
  (kb.endpoint # Undefined /\ DeepEqual(Obj(kb.paramsA), Obj(kb.paramsB))) => kb.keyA = kb.keyB

\* C12: disabled query.  Once the effects of a consumer with enabled = false
\* have run, whatever runs were triggered (mount, refetch(), invalidate(),
\* timer, focus), it has made no transport call and is Idle: isLoading and
\* isFetching are false and neither isSuccess nor isError is set.
C12_DisabledIsIdle ==
  (~opts[1].enabled /\ q[1].phase # "rendered") =>
    /\ q[1].controllers = 0
    /\ ~q[1].isLoading /\ ~q[1].isFetching
    /\ ~q[1].isSuccess /\ ~q[1].isError

\* A failure of the chain started by the mount has scheduled a retry and the
\* chain has not produced its terminal outcome yet: it is in the retry wait
\* or a retry attempt is pending.
ChainInProgress(s) ==
  s.mountedRef /\ (s.timers # {} \/ (s.retryCountRef > 0 /\ s.inflight # {}))

\* C14: while a retry chain is in progress, through the retry wait and the
\* retry attempts, isFetching is true.
C14_FetchingThroughRetries == ChainInProgress(q[1]) => q[1].isFetching

\* The most recent transport call of the mounted consumer is outstanding and
\* not cancelled.
Outstanding(s) ==
  /\ s.mountedRef
  /\ s.abortControllerRef \in s.inflight
  /\ s.abortControllerRef \notin s.aborted

\* C15: isFetching is true during any fetch.  Leaving reset() aside, every
\* step that ends with the most recent transport call of the mounted consumer
\* outstanding and not cancelled ends with isFetching true, when the step
\* issued that call or isFetching was true before it: no completion of an
\* older attempt clears the flag.
C15_FetchingWhileOutstanding ==
  [][( /\ ev'.c = 1 /\ ev'.op # "reset"
       /\ Outstanding(q'[1])
       /\ q[1].isFetching \/ ev'.promise = "pending" ) => q'[1].isFetching]_vars

\* C16: stale-while-revalidate.  isLoading is true only in states where the
\* consumer holds no data; and a run that starts while data is present
\* leaves isLoading false and data as it was.
C16_LoadingOnlyWithoutData ==
  /\ [](q[1].isLoading => q[1].data = Undefined)
  /\ [][( /\ ev'.op \in {"mount", "refetch", "interval", "focus"} /\ ev'.c = 1
          /\ q[1].data # Undefined /\ ~q[1].isLoading ) =>
          /\ ~q'[1].isLoading
          /\ ev'.promise = "pending" => q'[1].data = q[1].data]_vars

\* The step recorded by e is the failure of a transport call: it rejected,
\* or resolved with a response that fetchData throws on.
Failed(e) ==
  \/ e.op = "reject"
  \/ /\ e.op = "resolve"
     /\ ~(e.response.success /\ IsTruthy(e.response.data))
     /\ ~(e.response.success /\ ~IsTruthy(e.response.errors))

\* The error of a failure step.
FailureOf(e) == IF e.op = "reject" THEN e.arg ELSE NewError(e.response.errors)

\* C13: query terminal failure.  In a chain, a failed attempt of the mounted
\* consumer that leaves retries invokes no callback and sets no error; the
\* failed attempt that exhausts them sets error to its failure, isError to
\* true and isSuccess to false and invokes onError once, with that failure;
\* afterwards the chain has no call and no timer left, so onError is not
\* invoked again; and the promise of the fetchData call (the one refetch()
\* awaits and returns) resolves.
C13_ErrorIsFinal == q[1].isError => (q[1].inflight = {} /\ q[1].timers = {})

C13_QueryTerminalFailure ==
  /\ []C13_ErrorIsFinal
  /\ [][(Failed(ev') /\ ev'.c = 1 /\ q[1].mountedRef) =>
          /\ ev'.promise = "resolved"
          /\ IF q[1].retryCountRef < opts[1].retry
               THEN /\ cb' = <<>>
                    /\ ~q'[1].isError /\ q'[1].error = Null
                    /\ Cardinality(q'[1].timers) = 1
               ELSE /\ q'[1].error = FailureOf(ev')
                    /\ q'[1].isError /\ ~q'[1].isSuccess
                    /\ cb' = <<[fn |-> "onError", arg |-> FailureOf(ev')]>>]_vars

\* C13 witness: with retry = 2 the third attempt has just been rejected and
\* the chain has ended in Error with that failure.
C13_Witness ==
  /\ opts[1].retry = 2
  /\ ev.op = "reject" /\ ev.c = 1 /\ ev.id = 3
  /\ q[1].isError /\ q[1].error = ev.arg
  /\ cb = <<[fn |-> "onError", arg |-> ev.arg]>>
  /\ ev.promise = "resolved"

\* The step recorded by e is the resolution of a transport call of consumer
\* 1 that fetchData applies: the consumer is mounted and the attempt is the
\* most recent one, its signal not aborted.
Applied(e) ==
  /\ e.op = "resolve" /\ e.c = 1
  /\ q[1].mountedRef
  /\ e.id = q[1].abortControllerRef
  /\ e.id \notin q[1].aborted

\* C17: query success.  When an applied attempt resolves with success and a
\* data payload, the cache entry of the consumer's key holds the raw payload,
\* the time of the write and the configured staleTime, data is the selection
\* of the payload, isSuccess is true, isError false, error null and the retry
\* counter 0, and onSuccess is invoked once with data.
C17_QuerySuccess ==
  [][( /\ Applied(ev')
       /\ ev'.response.success /\ ev'.response.data # Undefined ) =>
       /\ Has(cache', KeyOf(1))
       /\ cache'[KeyOf(1)] = [data |-> ev'.response.data, timestamp |-> now,
                              staleTime |-> opts[1].staleTime]
       /\ q'[1].data = Select(opts[1].select, ev'.response.data)
       /\ q'[1].isSuccess /\ ~q'[1].isError /\ q'[1].error = Null
       /\ q'[1].retryCountRef = 0
       /\ cb' = <<[fn |-> "onSuccess", arg |-> q'[1].data]>>]_vars

C19_SuccessWithErrorsFails ==
  [][(Applied(ev') /\ ev'.response.success /\ IsTruthy(ev'.response.errors)) =>
       /\ q'[1].data = q[1].data
       /\ cache' = cache
       /\ IF q[1].retryCountRef < opts[1].retry
            THEN q'[1].retryCountRef = q[1].retryCountRef + 1 /\ cb' = <<>>
            ELSE /\ q'[1].isError /\ ~q'[1].isSuccess
                 /\ cb' = <<[fn |-> "onError", arg |-> NewError(ev'.response.errors)]>>]_vars

\* The step recorded by e is the failure of a transport call of a mutate
\* call: it rejected, or resolved with a response that executeMutation
\* throws on.
MutationFailed(e) ==
  \/ e.op = "mutationReject"
  \/ /\ e.op = "mutationResolve"
     /\ ~(e.response.success /\ IsTruthy(e.response.data))
     /\ ~(e.response.success /\ ~IsTruthy(e.response.errors))

\* The error of such a step.
MutationFailureOf(e) ==
  IF e.op = "mutationReject" THEN e.arg ELSE NewMutationError(e.response.errors)

\* A mutate call whose promise has settled.
Settled(call) == call.pos \in {"resolved", "rejected"}

\* C20: mutation failure.  A failed attempt of a mutate call that leaves
\* retries starts a retry wait and invokes no callback; the failed attempt
\* that exhausts them sets error to its failure and isError to true, invokes
\* onError(error, variables) and then onSettled(undefined, error, variables),
\* and rejects the promise of the call with that error.  A settled call takes
\* no further step, so each callback is invoked once per call.
C20_MutationFailure ==
  [][/\ MutationFailed(ev') =>
          LET k == ev'.id
              err == MutationFailureOf(ev')
              v == mu.calls[k].variables
          IN IF mu.retryCountRef < mu.o.retry
               THEN /\ cb' = <<>>
                    /\ mu'.calls[k].pos = "waiting"
                    /\ mu'.retryCountRef = mu.retryCountRef + 1
               ELSE /\ mu'.error = err /\ mu'.isError /\ ~mu'.isSuccess
                    /\ cb' = <<Call("onError", Undefined, err, v),
                               Call("onSettled", Undefined, err, v)>>
                    /\ mu'.calls[k].pos = "rejected"
                    /\ mu'.calls[k].error = err
     /\ \A k \in MutationIds :
          Settled(mu.calls[k]) =>
            /\ mu'.calls[k] = mu.calls[k]
            /\ ev'.id = k => ev'.op \notin {"mutate", "mutationResolve", "mutationReject",
                                            "mutationTimer"}]_vars

\* C20 witness: with retry = 2 the third transport call of the first mutate
\* call has just been rejected; the call is rejected with that failure and
\* onError and onSettled have been invoked with it and the call's variables.
C20_Witness ==
  /\ mu.o.retry = 2
  /\ ev.op = "mutationReject" /\ ev.id = 1
  /\ mu.calls[1].attempts = 3
  /\ mu.calls[1].pos = "rejected" /\ mu.calls[1].error = ev.arg
  /\ mu.isError /\ mu.error = ev.arg
  /\ cb = <<Call("onError", Undefined, ev.arg, "v1"), Call("onSettled", Undefined, ev.arg, "v1")>>

\* C21: mutation success.  When the transport call of a mutate call resolves
\* with success and a data payload, data is that payload and isSuccess is
\* true, the callbacks invoked are onSuccess(data, variables) and then
\* onSettled(data, null, variables) and no other, and the promise of the call
\* resolves with the transport response.
C21_MutationSuccess ==
  [][( /\ ev'.op = "mutationResolve"
       /\ ev'.response.success /\ ev'.response.data # Undefined ) =>
       LET k == ev'.id
           v == mu.calls[k].variables
       IN /\ mu'.data = ev'.response.data
          /\ mu'.isSuccess /\ ~mu'.isError
          /\ cb' = <<Call("onSuccess", ev'.response.data, Null, v),
                     Call("onSettled", ev'.response.data, Null, v)>>
          /\ mu'.calls[k].pos = "resolved"
          /\ mu'.calls[k].response = ev'.response]_vars

\* C22: mutation retry count.  A single mutate call with a supported method
\* never makes more than retry + 1 transport calls; when its promise is
\* rejected, every attempt having failed, it has made exactly retry + 1; and
\* the attempt that succeeds, after the k <= retry failed ones counted by the
\* retry counter, is call k + 1, resolves the promise and leaves isSuccess
\* true and isError false, after which the call makes no further transport
\* call.
C22_ChainCalls ==
  Supported(mu.o.method) =>
    /\ mu.calls[1].attempts <= mu.o.retry + 1
    /\ mu.calls[1].pos = "rejected" => mu.calls[1].attempts = mu.o.retry + 1

C22_MutationRetryCount ==
  /\ []C22_ChainCalls
  /\ [][(ev'.op = "mutationResolve" /\ ~MutationFailed(ev')) =>
          /\ mu.calls[1].attempts = mu.retryCountRef + 1
          /\ mu'.calls[1].attempts = mu.calls[1].attempts
          /\ mu'.calls[1].pos = "resolved"
          /\ mu'.isSuccess /\ ~mu'.isError]_vars
  /\ [][Settled(mu.calls[1]) => mu'.calls[1] = mu.calls[1]]_vars

\* C22 witness: with retry = 2 the first two transport calls of the mutate
\* call failed and the third has just succeeded.
C22_Witness ==
  /\ mu.o.retry = 2
  /\ ev.op = "mutationResolve" /\ ev.id = 1
  /\ mu.calls[1].attempts = 3
  /\ mu.calls[1].pos = "resolved"
  /\ mu.isSuccess /\ ~mu.isError


\* C23: an unrecognized method is raised immediately and never retried.  For
\* every retry setting, a mutate call with a method outside
\* POST/PUT/PATCH/DELETE makes no transport call, never enters a retry wait,
\* and is rejected by the step that made it.
C23_UnsupportedNotRetried ==
  /\ [](~Supported(mu.o.method) =>
          \A k \in MutationIds : /\ mu.calls[k].attempts = 0
                                 /\ mu.calls[k].pos # "waiting")
  /\ [][(~Supported(mu.o.method) /\ ev'.op = "mutate") =>
          /\ mu'.calls[ev'.id].pos = "rejected"
          /\ mu'.calls[ev'.id].error = UnsupportedMethod]_vars


\* Some mutate call of the consumer has started and not yet settled.
MutationInProgress(m) ==
  \E k \in MutationIds : m.calls[k].pos \in {"inflight", "waiting"}

\* C24: mutation isLoading tracks progress.  isLoading is false whenever no
\* mutate call is in progress, and, reset() apart, a step that leaves some
\* mutate call in progress leaves isLoading true.
C24_LoadingTracksProgress ==
  /\ [](~MutationInProgress(mu) => ~mu.isLoading)
  /\ [][( /\ ev'.op # "mutationReset"
          /\ MutationInProgress(mu')
          /\ (mu.isLoading \/ ev'.op = "mutate") ) => mu'.isLoading]_vars


\* C25: mutation reset().  reset() sets data to absent, error to null and
\* isLoading, isError and isSuccess to false, leaves the cache and the calls
\* in flight as they are, and a mutate chain on its own makes the transport
\* calls it makes without a reset: at most retry + 1, and exactly retry + 1
\* when it is rejected.
C25_ResetKeepsChain ==
  /\ [][ev'.op = "mutationReset" =>
          /\ mu'.data = Undefined /\ mu'.error = Null
          /\ ~mu'.isLoading /\ ~mu'.isError /\ ~mu'.isSuccess
          /\ cache' = cache /\ mu'.calls = mu.calls]_vars
  /\ []((mu.calls[2].pos = "none" /\ Supported(mu.o.method)) =>
          /\ mu.calls[1].attempts <= mu.o.retry + 1
          /\ mu.calls[1].pos = "rejected" => mu.calls[1].attempts = mu.o.retry + 1)


\* C26: query reset().  From any prior state reset() sets data to undefined,
\* error to null, isLoading, isFetching, isError and isSuccess to false and
\* the retry counter to 0, and leaves the cache unchanged.
C26_QueryReset ==
  [][ev'.op = "reset" =>
       LET s == q'[ev'.c]
       IN /\ s.data = Undefined /\ s.error = Null
          /\ ~s.isLoading /\ ~s.isFetching /\ ~s.isError /\ ~s.isSuccess
          /\ s.retryCountRef = 0
          /\ cache' = cache]_vars

\* C26 witness: reset() has just cleared a consumer whose earlier success is
\* still in the cache.
C26_Witness ==
  /\ ev.op = "reset"
  /\ Has(cache, KeyOf(ev.c))
  /\ q[ev.c].data = Undefined /\ ~q[ev.c].isSuccess


\* C27: invalidateAll() removes every entry from the cache, issues no
\* transport call, invokes no callback and changes the state of no consumer;
\* a consumer meets the empty store on its next run, which then goes to the
\* transport.
C27_InvalidateAll ==
  /\ [][ev'.op = "invalidateAll" =>
          /\ cache' = createQueryCache
          /\ q' = q
          /\ cb' = <<>>]_vars
  /\ [][(ev'.op = "refetch" /\ cache = createQueryCache) =>
          /\ q'[ev'.c].controllers = q[ev'.c].controllers + 1
          /\ q'[ev'.c].abortControllerRef \in q'[ev'.c].inflight]_vars

\* C27 witness: invalidateAll() has just emptied a store that held the fresh
\* entry of a consumer in Success, which still shows its data.
C27_Witness ==
  /\ ev.op = "invalidateAll" /\ ev.id > 0
  /\ cache = createQueryCache
  /\ opts[1].staleTime > 0
  /\ q[1].phase = "mounted" /\ q[1].isSuccess /\ q[1].data # Undefined


\* C28: cache delete and clear are idempotent and safe on absent keys.
\* invalidateCacheEntry on a key the store does not hold leaves the store
\* unchanged, and invalidateCacheEntry(k) or clearCache applied twice in a row
\* leaves the store the first application left.
C28_Idempotent ==
  \A key \in Keys :
    /\ ~Has(cache, key) => invalidateCacheEntry(cache, key) = cache
    /\ invalidateCacheEntry(invalidateCacheEntry(cache, key), key)
         = invalidateCacheEntry(cache, key)
    /\ clearCache(clearCache(cache)) = clearCache(cache)

C28_DeleteClearIdempotent ==
  /\ []C28_Idempotent
  /\ [][(ev'.op = "invalidateQuery" /\ ~Has(cache, ev'.arg)) => cache' = cache]_vars
  /\ [][(ev'.op = "invalidateQuery" /\ ev.op = "invalidateQuery" /\ ev'.arg = ev.arg) =>
          cache' = cache]_vars
  /\ [][(ev'.op = "invalidateAll" /\ ev.op = "invalidateAll") => cache' = cache]_vars

\* C28 witness: invalidateCacheEntry has just been applied to a key the store
\* did not hold, and the store still holds the entry of its other key.
C28_Witness ==
  /\ ev.op = "invalidateQuery" /\ ev.id = 0
  /\ ~Has(cache, ev.arg)
  /\ cache # createQueryCache


\* C29: mount trigger.  The activation of an enabled consumer starts exactly
\* one run, which goes to the transport, when refetchOnMount is true and none
\* when it is false; and without refetchOnMount a transport call is only ever
\* issued by refetch(), invalidate(), a tick of the interval timer or a focus
\* signal.
C29_MountTrigger ==
  /\ [][ev'.op = "mount" =>
          LET c == ev'.c
          IN IF opts[c].refetchOnMount
               THEN /\ q'[c].controllers = 1
                    /\ q'[c].inflight = {1}
                    /\ q'[c].isFetching
               ELSE /\ q'[c].controllers = 0
                    /\ q'[c].inflight = {}
                    /\ ~q'[c].isFetching]_vars
  /\ [][\A c \in {1} :
          (~opts[c].refetchOnMount /\ q'[c].controllers > q[c].controllers) =>
             ev'.op \in {"refetch", "invalidate", "interval", "focus"}]_vars

\* C29 witness: a consumer without refetchOnMount is mounted, has made no
\* transport call yet, and its interval timer and focus listeners are set up.
C29_Witness ==
  /\ ~opts[1].refetchOnMount /\ opts[1].enabled
  /\ ev.op = "mount"
  /\ q[1].phase = "mounted" /\ q[1].controllers = 0
  /\ q[1].intervalRef /\ q[1].listening


C31_CounterInRange ==
  \A c \in {1} : q[c].retryCountRef \in 0..opts[c].retry

C31_RetryCounterDiscipline ==
  /\ []C31_CounterInRange
  /\ [][ev'.op \in {"refetch", "invalidate"} => q'[ev'.c].retryCountRef = 0]_vars
  /\ [][(Applied(ev') /\ ~Failed(ev')) => q'[1].retryCountRef = 0]_vars
  /\ [][q'[1].retryCountRef > q[1].retryCountRef =>
          /\ Failed(ev')
          /\ q'[1].retryCountRef = q[1].retryCountRef + 1
          /\ q'[1].timers \ q[1].timers # {}]_vars

\* C31 witness: the counter is at its limit of 1 while a retry timer is
\* pending, after an earlier success of the consumer.
C31_Witness ==
  /\ opts[1].retry = 1 /\ q[1].retryCountRef = 1
  /\ q[1].timers # {}
  /\ Has(cache, KeyOf(1))


\* The response of event e is applied to consumer c: it belongs to the most
\* recent attempt of the mounted consumer, and that attempt is not cancelled.
AppliedTo(c, e) ==
  /\ e.op = "resolve" /\ e.c = c
  /\ q[c].mountedRef
  /\ e.id = q[c].abortControllerRef
  /\ e.id \notin q[c].aborted

\* C32: cross-consumer cache writes are last-write-wins.  With two consumers
\* of one key, every successful fetch that is applied leaves in the cache
\* entry its payload and the time of the write, whichever consumer wrote
\* before; and a run started while the entry is within its staleTime is
\* served the payload of the entry without a transport call.
C32_LastWriteWins ==
  /\ [][\A c \in Consumers :
          (AppliedTo(c, ev') /\ ~Failed(ev')) =>
             /\ Has(cache', KeyOf(c))
             /\ cache'[KeyOf(c)].data = ev'.response.data
             /\ cache'[KeyOf(c)].timestamp = now]_vars
  /\ [][(ev'.op \in {"mount", "refetch"} /\ ev'.arg = "fresh") =>
          LET c == ev'.c
          IN /\ q'[c].controllers = q[c].controllers
             /\ q'[c].isSuccess
             /\ q'[c].data = Select(opts[c].select, cache[KeyOf(c)].data)]_vars


\* C33: query flag consistency.  In every state of a query consumer, under
\* any interleaving of runs, completions, retries, reset and invalidate,
\* isSuccess and isError are not both true, and isError is true exactly when
\* error is not null.
C33_FlagConsistency ==
  \A c \in Consumers :
    /\ ~(q[c].isSuccess /\ q[c].isError)
    /\ q[c].isError <=> (q[c].error # Null)

\* C33 witness: a consumer that was in Success has failed since: it shows
\* the error while the entry of its earlier success is still in the cache.
C33_Witness ==
  /\ q[1].isError /\ q[1].error # Null /\ ~q[1].isSuccess
  /\ Has(cache, KeyOf(1))
  /\ ev.op \in {"resolve", "reject"}


\* C34: reset is not undone by earlier work.  When the step that follows
\* reset() is the completion of a transport call issued before it, so that no
\* new run was started in between, data is still undefined and isSuccess and
\* isError are still false after that step.
C34_ResetNotUndone ==
  [][(ev.op = "reset" /\ ev'.op \in {"resolve", "reject"} /\ ev'.c = ev.c) =>
       LET s == q'[ev'.c]
       IN s.data = Undefined /\ ~s.isSuccess /\ ~s.isError]_vars


\* C35: overlapping mutations keep their own retry budget.  With two mutate
\* calls of one consumer overlapping in time, the chain of each call makes at
\* most retry + 1 transport calls.
C35_OwnRetryBudget ==
  Supported(mu.o.method) =>
    \A k \in MutationIds : mu.calls[k].attempts <= mu.o.retry + 1


\* C36: mutation after unmount.  When the step that follows the unmount of
\* the consumer is the completion of the transport call of a mutate call that
\* was in flight, it changes none of data, error, isLoading, isSuccess and
\* isError, starts no retry wait and invokes no callback.
C36_SilentAfterUnmount ==
  [][(ev.op = "mutationUnmount" /\ ev'.op \in {"mutationResolve", "mutationReject"}) =>
       /\ cb' = <<>>
       /\ mu'.calls[ev'.id].pos # "waiting"
       /\ <<mu'.data, mu'.error, mu'.isLoading, mu'.isSuccess, mu'.isError>>
            = <<mu.data, mu.error, mu.isLoading, mu.isSuccess, mu.isError>>]_vars

\* C37: mutation data reflects the latest success.  After any sequence of
\* mutate calls, the step in which a call settles successfully with a payload
\* leaves data equal to that payload, and the step in which a call settles
\* successfully with an empty payload leaves data absent: data is never the
\* payload of an earlier call.
C37_DataOfLatestSuccess ==
  [][(ev'.op = "mutationResolve" /\ ~MutationFailed(ev')) =>
       LET payload == ev'.response.data
       IN (IsTruthy(payload) \/ payload = Undefined) => mu'.data = payload]_vars

\* The consumer is at rest in Success or in Error.
QuerySettled(s) ==
  /\ ~s.isFetching /\ ~s.isLoading
  /\ s.isSuccess # s.isError

\* C38: query settles.  For an enabled consumer that stays mounted, when the
\* transport settles every call and the triggers come to an end, from some
\* point on isFetching and isLoading are false and exactly one of isSuccess
\* and isError is true.
C38_QuerySettles == <>[]QuerySettled(q[1])


\* C39: the cache holds the raw transport payload, never the output of
\* select.  With two consumers of one key and any select options: the entry
\* is written only by an applied successful response, with the payload as the
\* transport delivered it; and a run served from the cache adopts, and passes
\* to onSuccess, the consumer's own select applied to the value of the entry,
\* without a transport call.
C39_CacheHoldsRawPayload ==
  /\ [][\A key \in DOMAIN cache' :
          (key \notin DOMAIN cache \/ cache'[key] # cache[key]) =>
             /\ AppliedTo(ev'.c, ev') /\ ~Failed(ev')
             /\ key = KeyOf(ev'.c)
             /\ cache'[key].data =
                  (IF IsTruthy(ev'.response.data) THEN ev'.response.data ELSE Undefined)]_vars
  /\ [][(ev'.op \in {"mount", "refetch"} /\ ev'.arg = "fresh"
           /\ IsTruthy(cache[KeyOf(ev'.c)].data)) =>
          LET c == ev'.c
              finalData == Select(opts[c].select, cache[KeyOf(c)].data)
          IN /\ q'[c].controllers = q[c].controllers
             /\ q'[c].data = finalData
             /\ cb' = <<[fn |-> "onSuccess", arg |-> finalData]>>
             /\ cache' = cache]_vars

\* C39 witness: consumer 1, without select, fetched the payload p1; consumer
\* 2, which projects, has just been served from the cache without ever
\* calling the transport: each shows its own view of the one entry.
C39_Witness ==
  /\ opts[1].select = "none" /\ opts[2].select = "proj"
  /\ ev.op = "mount" /\ ev.c = 2 /\ ev.arg = "fresh"
  /\ q[2].controllers = 0
  /\ cache[KeyOf(2)].data = "p1"
  /\ q[1].data = "p1" /\ q[2].data = Proj("p1") /\ q[2].data # q[1].data

====
